---- MODULE Spec2Model ----
(***************************************************************************)
(* A model of the PIKata notebook StickingPI.ipynb: the Newton square root *)
(* sqrtn, the quarter-circle sample table, the needle generator            *)
(* randomRotatedLine, the crossing detector crosses, the experiment runner *)
(* estimate, the render cell and the distribution cell that call them      *)
(* again, and the Riemann integrator reimann.  The lists that hold the     *)
(* segments are kept in a heap, by identity, since crosses reorders the    *)
(* list it is given.                                                       *)
(*                                                                         *)
(* Python floats are modelled by decimal fixed-point numbers: an integer v *)
(* stands for v / Scale (quantities of the unit range: sqrtn's operands,   *)
(* the sample table, ratio, the estimates) or for v / PxScale (pixel       *)
(* quantities: width, D, the grid, L, the coordinates).  Every product and *)
(* quotient is rounded to the nearest representable value, as a float      *)
(* operation is.  TLC's integers are 32 bits wide, so products are formed  *)
(* by MulDivMod, which never holds more than three times its divisor.      *)
(***************************************************************************)
EXTENDS Integers, Sequences, FiniteSets, TLC

VARIABLES
    sq_pc,      \* sqrtn: "idle", "loop" (at the while test), "returned", "raised"
    sq_n,       \* sqrtn: the argument n
    k,          \* sqrtn: the local k
    sq_ret,     \* sqrtn: the value returned
    iters,      \* sqrtn: loop bodies executed by the current call (saturates)
    c_pc,       \* crosses: "idle", "returned"
    c_s0,       \* crosses: the segment s as it was passed
    c_s,        \* crosses: the segment s (the caller's list) after the call
    c_lines0,   \* crosses: the grid as it was passed
    c_lines,    \* crosses: the grid (the caller's list) after the call
    c_ret,      \* crosses: the boolean returned by the latest call
    c_calls,    \* crosses: the calls made on the segment so far
    c_first,    \* crosses: the boolean returned by the first call
    c_prev,     \* crosses: the segment as the latest call found it
    n,          \* the global n: the number of needles of one experiment
    lines,      \* the global lines: the grid
    est_pc,     \* estimate: "idle", "returned", "ZeroDivisionError"
    generated,  \* estimate: the segments as randomRotatedLine returned them
    sticks,     \* estimate: the list sticks it returns
    crossed,    \* estimate: the count it returns
    est,        \* estimate: the estimate it returns
    drawn,      \* estimate: the draws its needles were generated from
    tested,     \* estimate: the booleans crosses returned, stick by stick
    returned,   \* estimate: the segments of sticks as they were on return
    heap,       \* the segment lists alive, by identity
    stick_ids,  \* the identities of the elements of the global sticks
    colours,    \* render cell: the stroke style of each stick, in order
    renders,    \* render cell: the times it has run
    dist_pc,    \* distribution cell: "idle", "loop", "sorted"
    runs,       \* distribution cell: the estimate() calls it has made
    ests,       \* distribution cell: the list ests
    temp_ids,   \* distribution cell: the identities of the segments of the
                \* latest of its calls
    temp_gen,   \* distribution cell: those segments as they were generated
    r_pc,       \* reimann: "idle", "returned", "ZeroDivisionError"
    r_args,     \* reimann: the arguments [f, a, b, n, method]
    r_ret       \* reimann: the value returned

sqrtVars == <<sq_pc, sq_n, k, sq_ret, iters>>
crossVars == <<c_pc, c_s0, c_s, c_lines0, c_lines, c_ret, c_calls, c_first, c_prev>>
configVars == <<n, lines>>
estVars == <<est_pc, generated, sticks, crossed, est, drawn, tested, returned,
            heap, stick_ids>>
renderVars == <<colours, renders>>
distVars == <<dist_pc, runs, ests, temp_ids, temp_gen>>
reimannVars == <<r_pc, r_args, r_ret>>

vars == <<sqrtVars, crossVars, configVars, estVars, renderVars, distVars,
         reimannVars>>

\* Python's None: a local not yet bound, a call that returned nothing.  A
\* number, as every value of these variables is; the pc of a call tells
\* whether its result is a value.
None == 0 - 1

----------------------------------------------------------------------------
(* Fixed-point arithmetic *)

Scale == 10^8

Abs(x) == IF x < 0 THEN -x ELSE x

\* From <<q, r>> for a * (b \div 2) to <<q, r>> for a * b: double, add a when b
\* is odd, and carry.
MulDivStep(h, a, b, c) ==
    <<2 * h[1] + (IF b % 2 = 1 THEN a \div c ELSE 0)
        + ((2 * h[2] + (IF b % 2 = 1 THEN a % c ELSE 0)) \div c),
      (2 * h[2] + (IF b % 2 = 1 THEN a % c ELSE 0)) % c>>

\* <<q, r>> with a*b = q*c + r and 0 <= r < c, for a, b >= 0 and c > 0.  (The
\* half product is bound by a quantifier so that it is computed once.)
RECURSIVE MulDivMod(_, _, _)
MulDivMod(a, b, c) ==
    IF b <= 0 THEN <<0, 0>>
    ELSE CHOOSE qr \in {MulDivStep(h, a, b, c) : h \in {MulDivMod(a, b \div 2, c)}} : TRUE

\* a*b/c rounded to the nearest integer (halves upward), a, b >= 0, c > 0.
MulDiv(a, b, c) ==
    LET qr == MulDivMod(a, b, c)
    IN  qr[1] + (IF 2 * qr[2] >= c THEN 1 ELSE 0)

\* The float product and quotient of two unit-scale numbers.
FMul(x, y) ==
    LET m == MulDiv(Abs(x), Abs(y), Scale)
    IN  IF (x < 0) = (y < 0) THEN m ELSE -m

FDiv(x, y) ==
    LET m == MulDiv(Abs(x), Scale, Abs(y))
    IN  IF (x < 0) = (y < 0) THEN m ELSE -m

\* x / 2.
Half(x) == (x + 1) \div 2

----------------------------------------------------------------------------
(* sqrtn *)

\* e = 1.0e-5: a tolerance two digits too loose.
e_loose == Scale \div 10^5

\* e = 1.0e-7
e == Scale \div 10^7

\* The test for an exact square: n != k*k.
SqrtnTest_exact(x, kk) == x # FMul(kk, kk)

\* The test without abs: n - k*k > e.
SqrtnTest_noabs(x, kk) == x - FMul(kk, kk) > Scale \div 10^7

\* The while test: abs(n - k*k) > e.
SqrtnTest(x, kk) == Abs(x - FMul(kk, kk)) > e

\* The loop body: k1 = (k + n/k) / 2; k = k1.
NewtonStep(x, kk) == Half(kk + FDiv(x, kk))

\* The loop, run to its end: the k that sqrtn returns.
RECURSIVE SqrtnLoop(_, _)
SqrtnLoop(x, kk) ==
    IF SqrtnTest(x, kk) THEN SqrtnLoop(x, NewtonStep(x, kk)) ELSE kk

\* sqrtn as a function of a non-negative argument.
sqrtn(x) == IF x = 0 THEN 0 ELSE SqrtnLoop(x, x + Scale)

\* The head without the test for zero.
SqrtnEntry_nozero(x) == IF x < 0 THEN "raised" ELSE "loop"

\* Where a call of sqrtn goes before the loop: the two ifs at its head.
SqrtnEntry(x) ==
    IF x < 0 THEN "raised"
    ELSE IF x = 0 THEN "returned"
    ELSE "loop"

----------------------------------------------------------------------------
(* The configuration cell and the sample table *)

\* Pixel quantities: an integer v stands for v / PxScale.
PxScale == 10^6

\* x / c for a whole number c > 0, rounded (x >= 0).
DivInt(x, c) == MulDiv(x, 1, c)

width == 600 * PxScale
height == 400 * PxScale
numLines == 11
D == DivInt(width, numLines)
ratio == FDiv(Scale, 3 * Scale)

\* lines = [i*D for i in range(numLines+1)], as a sequence indexed from 1.
grid == [i \in 1..(numLines + 1) |-> (i - 1) * D]

\* L = (ratio)*D + 5
L == MulDiv(ratio, D, Scale) + 5 * PxScale

samples == 1000

\* xs = linspace(0,1,samples), indexed from 0.
xs == [i \in 0..(samples - 1) |-> MulDiv(i, Scale, samples - 1)]

\* ys = [sqrtn(1 - x*x) for x in xs]
ys == [i \in 0..(samples - 1) |-> sqrtn(Scale - FMul(xs[i], xs[i]))]

----------------------------------------------------------------------------
(* randomRotatedLine *)

\* What the random source hands out: random.random() in [0, 1), random.choice
\* of a sign, random.randint(0, samples-1).
RandomFloats == {0, Scale - 1}
RandomSigns == {1, -1}
RandomIndexes == {0, samples \div 2, samples - 1}

\* The four draws of one call, in the order the code makes them.
Draws ==
    [u1 : RandomFloats, u2 : RandomFloats, quad : RandomSigns, idx : RandomIndexes]

\* The sign applied to both offsets.
randomRotatedLine_signboth(length, d) ==
    LET ox == MulDiv(d.u1, width, Scale)
        oy == MulDiv(d.u2, height, Scale)
        x  == d.quad * MulDiv(xs[d.idx], length, Scale)
        y  == d.quad * MulDiv(ys[d.idx], length, Scale)
    IN  <<<<ox, oy>>, <<ox + x, oy + y>>>>

\* randomRotatedLine(length), given its draws d.  A point is <<x, y>> and a
\* segment <<first point, second point>>.
randomRotatedLine(length, d) ==
    LET ox == MulDiv(d.u1, width, Scale)
        oy == MulDiv(d.u2, height, Scale)
        x  == d.quad * MulDiv(xs[d.idx], length, Scale)
        y  == MulDiv(ys[d.idx], length, Scale)
    IN  <<<<ox, oy>>, <<ox + x, oy + y>>>>

----------------------------------------------------------------------------
(* crosses *)

\* The loop without the swap of the endpoints.
RECURSIVE crossesFrom_noswap(_, _, _)
crossesFrom_noswap(s, ls, i) ==
    IF i > Len(ls) THEN [ret |-> FALSE, s |-> s]
    ELSE IF s[1][1] <= ls[i] /\ s[2][1] >= ls[i]
         THEN [ret |-> TRUE, s |-> s]
         ELSE crossesFrom_noswap(s, ls, i + 1)

\* The loop with the left bound exclusive: s[0][0] < l.
RECURSIVE crossesFrom_strict(_, _, _)
crossesFrom_strict(s, ls, i) ==
    IF i > Len(ls) THEN [ret |-> FALSE, s |-> s]
    ELSE LET s1 == IF s[1][1] > s[2][1] THEN <<s[2], s[1]>> ELSE s
         IN  IF s1[1][1] < ls[i] /\ s1[2][1] >= ls[i]
             THEN [ret |-> TRUE, s |-> s1]
             ELSE crossesFrom_strict(s1, ls, i + 1)

\* The loop with the swap made after the test instead of before it.
RECURSIVE crossesFrom_swaplate(_, _, _)
crossesFrom_swaplate(s, ls, i) ==
    IF i > Len(ls) THEN [ret |-> FALSE, s |-> s]
    ELSE IF s[1][1] <= ls[i] /\ s[2][1] >= ls[i]
         THEN [ret |-> TRUE, s |-> s]
         ELSE crossesFrom_swaplate(
                  IF s[1][1] > s[2][1] THEN <<s[2], s[1]>> ELSE s, ls, i + 1)

\* The for loop of crosses from the grid line at index i on: the value
\* returned and the segment as the loop leaves it.  The swap is in the loop.
RECURSIVE crossesFrom(_, _, _)
crossesFrom(s, ls, i) ==
    IF i > Len(ls) THEN [ret |-> FALSE, s |-> s]
    ELSE LET s1 == IF s[1][1] > s[2][1] THEN <<s[2], s[1]>> ELSE s
         IN  IF s1[1][1] <= ls[i] /\ s1[2][1] >= ls[i]
             THEN [ret |-> TRUE, s |-> s1]
             ELSE crossesFrom(s1, ls, i + 1)

\* crosses(s, lines)
crosses(s, ls) == crossesFrom(s, ls, 1)

----------------------------------------------------------------------------
(* estimate *)

\* x / c as Python divides: an error when c is zero.
TrueDiv(x, c) ==
    IF c = 0 THEN [pc |-> "ZeroDivisionError", v |-> None]
    ELSE [pc |-> "returned", v |-> DivInt(x, c)]

\* sum(...) that misses the first stick.
CrossedSum_skipfirst(res) == Cardinality({i \in DOMAIN res : i > 1 /\ res[i].ret})

\* sum([crosses(s,lines) for s in sticks]), res being the calls' results.
CrossedSum(res) == Cardinality({i \in DOMAIN res : res[i].ret})

\* The quotient without the guard for no crossing.
EstimateValue_noguard(c, trials) == TrueDiv(2 * ratio * trials, c)

\* estimate = 0 if crossed == 0 else (2*ratio*n) / (crossed)
EstimateValue(c, trials) ==
    IF c = 0 THEN [pc |-> "returned", v |-> 0]
    ELSE TrueDiv(2 * ratio * trials, c)

\* randomRotatedLine(L) for each of the draws, as a table laid out once
\* (f @@ <<>> is f with its values enumerated).
needle == [d \in Draws |-> randomRotatedLine(L, d)] @@ <<>>

\* A list allocated where one that is still alive lies.
NewId_reused(live) == 1

\* The identity of a list newly allocated while the lists of `live` are
\* alive: one that none of them has.
NewId(live) ==
    IF live = {} THEN 1
    ELSE 1 + CHOOSE m \in live : \A j \in live : j <= m

\* The heap h after the lists of identities ids have been given the values
\* vals, in order.
Store(h, ids, vals) ==
    [id \in DOMAIN h \cup {ids[i] : i \in DOMAIN ids} |->
        IF \E i \in DOMAIN ids : ids[i] = id
        THEN vals[CHOOSE i \in DOMAIN ids :
                      ids[i] = id /\ \A j \in DOMAIN ids : ids[j] = id => j <= i]
        ELSE h[id]]

\* The heap h without the lists nothing refers to any more: those of keep
\* remain.
Collect(h, keep) == [id \in {keep[i] : i \in DOMAIN keep} |-> h[id]]

\* One run of the body of estimate() on the heap h with the given draws:
\* the segments generated (gen) at their identities (ids), the results of
\* crosses on them (res), the heap they leave and the estimate (out).
Invocation(h, draws, ls, trials) ==
    LET gen == [i \in 1..trials |-> needle[draws[i]]]
        ids == [i \in 1..trials |-> NewId(DOMAIN h) + i - 1]
        res == [i \in 1..trials |-> crosses(gen[i], ls)]
    IN  [gen |-> gen,
         ids |-> ids,
         res |-> res,
         heap |-> Store(h, ids, [i \in 1..trials |-> res[i].s]),
         crossed |-> CrossedSum(res),
         out |-> EstimateValue(CrossedSum(res), trials)]

----------------------------------------------------------------------------
(* reimann *)

\* The integrands: 4/(1 + x**2) of the notebook, and x and x**2.
Integrands == {"arctan4", "ident", "square"}

Apply(f, x) ==
    CASE f = "arctan4" -> FDiv(4 * Scale, Scale + FMul(x, x))
      [] f = "ident"   -> x
      [] f = "square"  -> FMul(x, x)

\* (b - a) / n for a whole number n > 0.
Step(a, b, nn) == IF b >= a THEN DivInt(b - a, nn) ELSE -DivInt(a - b, nn)

\* linspace(a, b, n+1)[i]: the start plus i steps, the last point being b.
Linspace(a, b, nn, i) == IF i = nn THEN b ELSE a + i * Step(a, b, nn)

\* The sample points with left and right exchanged.
SamplePoint_swapped(a, b, nn, i, method) ==
    IF method = "left" THEN Linspace(a, b, nn, i + 1)
    ELSE IF method = "right" THEN Linspace(a, b, nn, i)
    ELSE Half(Linspace(a, b, nn, i) + Linspace(a, b, nn, i + 1))

\* The sample points with every method but 'right' taken as 'left'.
SamplePoint_leftdefault(a, b, nn, i, method) ==
    IF method = "right" THEN Linspace(a, b, nn, i + 1)
    ELSE Linspace(a, b, nn, i)

\* The sample point of subinterval i (from 0): x[:-1][i], x[1:][i] or the
\* midpoint ((x[:-1] + x[1:])/2)[i].
SamplePoint(a, b, nn, i, method) ==
    IF method = "left" THEN Linspace(a, b, nn, i)
    ELSE IF method = "right" THEN Linspace(a, b, nn, i + 1)
    ELSE Half(Linspace(a, b, nn, i) + Linspace(a, b, nn, i + 1))

\* npsum(f(x_)*dx) over the subintervals i..n-1.
RECURSIVE SumFrom(_, _, _, _, _, _)
SumFrom(f, a, b, nn, method, i) ==
    IF i >= nn THEN 0
    ELSE FMul(Apply(f, SamplePoint(a, b, nn, i, method)), Step(a, b, nn))
         + SumFrom(f, a, b, nn, method, i + 1)

\* reimann(f, a, b, n, method): dx = (b-a)/n fails when n is zero.
reimann(f, a, b, nn, method) ==
    IF nn = 0 THEN [pc |-> "ZeroDivisionError", v |-> None]
    ELSE [pc |-> "returned", v |-> SumFrom(f, a, b, nn, method, 0)]

----------------------------------------------------------------------------
(* The calls of sqrtn *)

\* The arguments sqrtn is called with: those of the sample table (1 - x*x for
\* x in xs), negative ones, zero, the powers of ten from 1e-8 to 1, an even
\* grid over [0, 1], and 2 and 3.
SqrtGrid == 16
MaxIters == 40

SqrtInputs ==
    {-Scale, -1}
    \cup {10^j : j \in 0..8}
    \cup {(i * Scale) \div SqrtGrid : i \in 0..SqrtGrid}
    \cup {2 * Scale, 3 * Scale}
    \cup {Scale - FMul(xs[i], xs[i]) : i \in 0..(samples - 1)}

\* def sqrtn(n), called on the argument sq_n: the checks, then e and k are set.
SqrtnCall ==
    /\ sq_pc = "idle"
    /\ sq_pc' = SqrtnEntry(sq_n)
    /\ k' = IF SqrtnEntry(sq_n) = "loop" THEN sq_n + Scale ELSE None
    /\ sq_ret' = IF SqrtnEntry(sq_n) = "returned" THEN 0 ELSE None
    /\ iters' = 0
    /\ UNCHANGED sq_n
    /\ UNCHANGED <<crossVars, configVars, estVars, renderVars, distVars, reimannVars>>

\* One pass of the while loop: the test holds, the body runs.
SqrtnBody ==
    /\ sq_pc = "loop"
    /\ SqrtnTest(sq_n, k)
    /\ IF k = 0
       THEN /\ sq_pc' = "ZeroDivisionError"
            /\ k' = k
       ELSE /\ sq_pc' = "loop"
            /\ k' = NewtonStep(sq_n, k)
    /\ iters' = IF iters < MaxIters THEN iters + 1 ELSE iters
    /\ UNCHANGED <<sq_n, sq_ret>>
    /\ UNCHANGED <<crossVars, configVars, estVars, renderVars, distVars, reimannVars>>

\* The test fails: return k.
SqrtnReturn ==
    /\ sq_pc = "loop"
    /\ ~SqrtnTest(sq_n, k)
    /\ sq_pc' = "returned"
    /\ sq_ret' = k
    /\ UNCHANGED <<sq_n, k, iters>>
    /\ UNCHANGED <<crossVars, configVars, estVars, renderVars, distVars, reimannVars>>

----------------------------------------------------------------------------
(* The calls of crosses *)

MaxCoord == 3
MaxGridLen == 2

Points == (0..MaxCoord) \X (0..1)
Segments == Points \X Points
Grids == UNION {[1..m -> 0..MaxCoord] : m \in 0..MaxGridLen}

\* The calls made on one segment.
MaxCalls == 3

\* crosses(c_s, c_lines) is called; c_s is the caller's list, which the call
\* may reorder.
CrossesCall ==
    /\ c_pc = "idle"
    /\ c_pc' = "returned"
    /\ c_ret' = crosses(c_s, c_lines).ret
    /\ c_s' = crosses(c_s, c_lines).s
    /\ c_calls' = 1
    /\ c_first' = crosses(c_s, c_lines).ret
    /\ c_prev' = c_s
    /\ UNCHANGED <<c_s0, c_lines0, c_lines>>
    /\ UNCHANGED <<sqrtVars, configVars, estVars, renderVars, distVars, reimannVars>>

\* crosses(c_s, c_lines) is called once more on the same list c_s, as the
\* earlier calls left it.
CrossesAgain ==
    /\ c_pc = "returned"
    /\ c_calls < MaxCalls
    /\ c_ret' = crosses(c_s, c_lines).ret
    /\ c_s' = crosses(c_s, c_lines).s
    /\ c_calls' = c_calls + 1
    /\ c_prev' = c_s
    /\ UNCHANGED <<c_pc, c_s0, c_lines0, c_lines, c_first>>
    /\ UNCHANGED <<sqrtVars, configVars, estVars, renderVars, distVars, reimannVars>>

----------------------------------------------------------------------------
(* The calls of estimate *)

MaxTrials == 2

\* def estimate(): n needles are generated, each with its own draws, and
\* tested against the grid in turn; the estimate is computed and returned.
\* avgest, sticks, crossed = estimate() binds the global sticks to the list
\* returned.
Estimate ==
    /\ est_pc = "idle"
    /\ \E draws \in [1..n -> Draws] :
         \E run \in {Invocation(heap, draws, lines, n)} :
             /\ drawn' = draws
             /\ generated' = run.gen
             /\ heap' = run.heap
             /\ stick_ids' = run.ids
             /\ sticks' = [i \in 1..n |-> run.heap[run.ids[i]]]
             /\ returned' = [i \in 1..n |-> run.heap[run.ids[i]]]
             /\ tested' = [i \in 1..n |-> run.res[i].ret]
             /\ crossed' = run.crossed
             /\ est' = run.out.v
             /\ est_pc' = run.out.pc
    /\ UNCHANGED <<sqrtVars, crossVars, configVars, renderVars, distVars, reimannVars>>

----------------------------------------------------------------------------
(* The render cell *)

MaxRenders == 2

\* for s in sticks: canvas.stroke_style = 'red' if crosses(s,lines) else
\* 'black'; drawline(s,canvas).  The cell runs below the one that called
\* estimate(), on the lists of the global sticks.
Render ==
    /\ est_pc = "returned"
    /\ renders < MaxRenders
    /\ \E res \in {[i \in DOMAIN stick_ids |-> crosses(heap[stick_ids[i]], lines)]} :
         /\ colours' = [i \in DOMAIN stick_ids |->
                            IF res[i].ret THEN "red" ELSE "black"]
         /\ heap' = Store(heap, stick_ids, [i \in DOMAIN stick_ids |-> res[i].s])
         /\ sticks' = [i \in DOMAIN stick_ids |-> res[i].s]
    /\ renders' = renders + 1
    /\ UNCHANGED <<est_pc, generated, crossed, est, drawn, tested, returned, stick_ids>>
    /\ UNCHANGED <<sqrtVars, crossVars, configVars, distVars, reimannVars>>

----------------------------------------------------------------------------
(* The distribution cell *)

\* The calls of its comprehension (range(1000) in the notebook).
MaxRuns == 2

\* The draws of its calls: a needle given left end first, and two given right
\* end first, of which one crosses a line.
DistDraws ==
    {d \in Draws :
        /\ d.u2 = 0
        /\ \/ d.quad = 1 /\ d.idx = 0 /\ d.u1 = 0
           \/ d.quad = -1 /\ d.idx = samples - 1}

\* ests.sort(reverse=True)
RECURSIVE InsertDescending(_, _)
InsertDescending(x, q) ==
    IF q = <<>> THEN <<x>>
    ELSE IF x >= Head(q) THEN <<x>> \o q
    ELSE <<Head(q)>> \o InsertDescending(x, Tail(q))

RECURSIVE SortDescending(_)
SortDescending(q) ==
    IF q = <<>> THEN <<>>
    ELSE InsertDescending(Head(q), SortDescending(Tail(q)))

\* One more element of ests = [estimate()[0] for _ in range(1000)]: estimate()
\* is called again and its first value appended.  The segments of the call
\* before are garbage by then; those of the global sticks are alive.
DistCall ==
    /\ est_pc = "returned"
    /\ dist_pc \in {"idle", "loop"}
    /\ runs < MaxRuns
    /\ \E draws \in [1..n -> DistDraws] :
         \E run \in {Invocation(Collect(heap, stick_ids), draws, lines, n)} :
             /\ heap' = run.heap
             /\ temp_ids' = run.ids
             /\ temp_gen' = run.gen
             /\ sticks' = [i \in DOMAIN stick_ids |-> run.heap[stick_ids[i]]]
             /\ ests' = IF run.out.pc = "returned"
                        THEN Append(ests, run.out.v) ELSE ests
             /\ dist_pc' = IF run.out.pc = "returned" THEN "loop" ELSE run.out.pc
    /\ runs' = runs + 1
    /\ UNCHANGED <<est_pc, generated, crossed, est, drawn, tested, returned, stick_ids>>
    /\ UNCHANGED <<sqrtVars, crossVars, configVars, renderVars, reimannVars>>

\* The comprehension is over: ests.sort(reverse=True).
DistSort ==
    /\ dist_pc = "loop"
    /\ runs = MaxRuns
    /\ ests' = SortDescending(ests)
    /\ dist_pc' = "sorted"
    /\ UNCHANGED <<runs, temp_ids, temp_gen>>
    /\ UNCHANGED <<sqrtVars, crossVars, configVars, estVars, renderVars, reimannVars>>

----------------------------------------------------------------------------
(* The calls of reimann *)

MaxSub == 3

Bounds == {0, Scale \div 2, Scale, 2 * Scale}
Methods == {"left", "right", "center", "middle"}

\* All the argument lists of a call.
ReimannArgs == [f : Integrands, a : Bounds, b : Bounds, n : 0..MaxSub, method : Methods]

\* reimann is called on the arguments r_args.
ReimannCall ==
    /\ r_pc = "idle"
    /\ r_pc' = reimann(r_args.f, r_args.a, r_args.b, r_args.n, r_args.method).pc
    /\ r_ret' = reimann(r_args.f, r_args.a, r_args.b, r_args.n, r_args.method).v
    /\ UNCHANGED r_args
    /\ UNCHANGED <<sqrtVars, crossVars, configVars, estVars, renderVars, distVars>>

----------------------------------------------------------------------------
(* Specifications *)

\* No call of sqrtn made yet; its argument is one of inputs.
SqrtIdle(inputs) ==
    /\ sq_pc = "idle"
    /\ sq_n \in inputs
    /\ k = None
    /\ sq_ret = None
    /\ iters = 0

\* No call of crosses made yet; it will be passed one of segs and one of grids.
CrossesIdle(segs, grids) ==
    /\ c_pc = "idle"
    /\ c_s0 \in segs
    /\ c_s = c_s0
    /\ c_lines0 \in grids
    /\ c_lines = c_lines0
    /\ c_ret = FALSE
    /\ c_calls = 0
    /\ c_first = FALSE
    /\ c_prev = c_s0

\* n = 500
n_config == 500

\* The configuration cell has run: lines is the grid and n the trial count.
Config(trials) ==
    /\ n \in trials
    /\ lines = grid

EstimateIdle ==
    /\ est_pc = "idle"
    /\ generated = <<>>
    /\ sticks = <<>>
    /\ crossed = 0
    /\ est = None
    /\ drawn = <<>>
    /\ tested = <<>>
    /\ returned = <<>>
    /\ heap = <<>>
    /\ stick_ids = <<>>

\* Neither the render cell nor the distribution cell has run.
CellsIdle ==
    /\ colours = <<>>
    /\ renders = 0
    /\ dist_pc = "idle"
    /\ runs = 0
    /\ ests = <<>>
    /\ temp_ids = <<>>
    /\ temp_gen = <<>>

\* No call of reimann made yet; it will be passed one of args.
ReimannIdle(args) ==
    /\ r_pc = "idle"
    /\ r_args \in args
    /\ r_ret = None

NoSegment == {<<<<0, 0>>, <<0, 0>>>>}
NoGrid == {<<>>}

\* A segment given right end first, and a grid whose second line it reaches.
OneSegment == {<<<<2, 0>>, <<1, 1>>>>}
OneGrid == {<<0, 1>>}
NoArgs == {[f |-> "arctan4", a |-> 0, b |-> 0, n |-> 0, method |-> "center"]}

\* sqrtn called on each of its inputs.
InitSqrt ==
    /\ SqrtIdle(SqrtInputs)
    /\ CrossesIdle(NoSegment, NoGrid)
    /\ Config({n_config})
    /\ EstimateIdle
    /\ CellsIdle
    /\ ReimannIdle(NoArgs)

NextSqrt ==
    \/ SqrtnCall
    \/ SqrtnBody
    \/ SqrtnReturn

SpecSqrt == InitSqrt /\ [][NextSqrt]_vars

\* The interpreter runs a call to its end: a loop pass or a return that is
\* possible is taken.
FairSqrt == SpecSqrt /\ WF_vars(NextSqrt)

\* crosses called on each segment and each grid.
InitCrosses ==
    /\ SqrtIdle({0})
    /\ CrossesIdle(Segments, Grids)
    /\ Config({n_config})
    /\ EstimateIdle
    /\ CellsIdle
    /\ ReimannIdle(NoArgs)

NextCrosses == CrossesCall

SpecCrosses == InitCrosses /\ [][NextCrosses]_vars

\* The experiment: the configuration cell, with a trial count small enough
\* for every outcome of the draws to be listed, then estimate().
InitEstimate ==
    /\ SqrtIdle({0})
    /\ CrossesIdle(NoSegment, NoGrid)
    /\ Config(0..MaxTrials)
    /\ EstimateIdle
    /\ CellsIdle
    /\ ReimannIdle(NoArgs)

NextEstimate == Estimate

SpecEstimate == InitEstimate /\ [][NextEstimate]_vars

\* The trial counts of the sessions that run a cell again and again.
MaxSessionTrials == 1

\* The segments from a point of ordinate 0 to one of ordinate 1.
RisingSegments == {s \in Segments : s[1][2] = 0 /\ s[2][2] = 1}

\* The crossing test repeated: crosses called again and again on one list,
\* and the experiment followed by the render cell, run again and again.
\* Either crosses is given each rising segment and each grid and no needle is
\* dropped, or it is given one segment and the experiment has each trial
\* count.
InitRepeat ==
    /\ SqrtIdle({0})
    /\ \/ CrossesIdle(RisingSegments, Grids) /\ Config({0})
       \/ CrossesIdle(OneSegment, OneGrid) /\ Config(0..MaxSessionTrials)
    /\ EstimateIdle
    /\ CellsIdle
    /\ ReimannIdle(NoArgs)

NextRepeat ==
    \/ CrossesCall
    \/ CrossesAgain
    \/ Estimate
    \/ Render

SpecRepeat == InitRepeat /\ [][NextRepeat]_vars

\* The session: the configuration cell, estimate() called for the global
\* sticks, then the distribution cell calling it over and over.
InitSession ==
    /\ SqrtIdle({0})
    /\ CrossesIdle(NoSegment, NoGrid)
    /\ Config(0..MaxSessionTrials)
    /\ EstimateIdle
    /\ CellsIdle
    /\ ReimannIdle(NoArgs)

NextSession ==
    \/ Estimate
    \/ DistCall
    \/ DistSort

SpecSession == InitSession /\ [][NextSession]_vars

\* reimann called on each argument list.
InitReimann ==
    /\ SqrtIdle({0})
    /\ CrossesIdle(NoSegment, NoGrid)
    /\ Config({n_config})
    /\ EstimateIdle
    /\ CellsIdle
    /\ ReimannIdle(ReimannArgs)

NextReimann == ReimannCall

SpecReimann == InitReimann /\ [][NextReimann]_vars

----------------------------------------------------------------------------
(* Properties of crosses *)

Min(x, y) == IF x <= y THEN x ELSE y
Max(x, y) == IF x >= y THEN x ELSE y

\* Some grid line lies within the x-range of s, the bounds included.
Touches(s, ls) ==
    \E j \in 1..Len(ls) :
        Min(s[1][1], s[2][1]) <= ls[j] /\ ls[j] <= Max(s[1][1], s[2][1])

\* C1: crosses returns True exactly when some grid line lies within the
\* segment's x-range, bounds included: False for a segment left of every line
\* or right of every line, True when an endpoint is on a line.
C1_CrossesIffTouches ==
    c_pc = "returned" =>
        /\ c_ret <=> Touches(c_s0, c_lines)
        /\ (\A j \in 1..Len(c_lines) : Max(c_s0[1][1], c_s0[2][1]) < c_lines[j])
               => ~c_ret
        /\ (\A j \in 1..Len(c_lines) : Min(c_s0[1][1], c_s0[2][1]) > c_lines[j])
               => ~c_ret
        /\ (\E j \in 1..Len(c_lines) :
                c_s0[1][1] = c_lines[j] \/ c_s0[2][1] = c_lines[j])
               => c_ret

\* A segment given right end first whose left end alone is on a grid line.
C1_Witness ==
    /\ c_pc = "returned"
    /\ c_ret
    /\ c_s0[1][1] > c_s0[2][1]
    /\ \A j \in 1..Len(c_lines) : c_lines[j] <= c_s0[2][1]

\* C2: the result is the one crosses gives for the segment with its two
\* endpoints exchanged, on every grid.
C2_SwapInvariant ==
    c_pc = "returned" => c_ret = crosses(<<c_s0[2], c_s0[1]>>, c_lines).ret

C2_Witness ==
    /\ c_pc = "returned"
    /\ c_ret
    /\ c_s0[1][1] > c_s0[2][1]
    /\ Len(c_lines) = MaxGridLen

\* C12, as claimed: after crosses(s, lines) returns, on every grid, the empty
\* one included, s is normalized (s[0].x <= s[1].x), its endpoints are the two
\* points passed, exchanged only if s[0].x > s[1].x held before the call, and
\* the grid is as it was.
C12_NormalizedAfterCall ==
    c_pc = "returned" =>
        /\ c_s[1][1] <= c_s[2][1]
        /\ c_s = IF c_s0[1][1] > c_s0[2][1] THEN <<c_s0[2], c_s0[1]>> ELSE c_s0
        /\ c_lines = c_lines0

\* C13: however often crosses is called on the same list, every call
\* returns the boolean the first call returned and every call after the first
\* leaves the segment as it found it; so the style the render cell computes
\* for each stick of estimate() is red exactly for the sticks counted in
\* crossed, and rendering leaves the sticks as estimate() returned them.
C13_RepeatStable ==
    /\ c_calls >= 1 => c_ret = c_first
    /\ c_calls >= 2 => c_s = c_prev
    /\ renders >= 1 =>
           /\ DOMAIN colours = DOMAIN tested
           /\ \A i \in DOMAIN colours : (colours[i] = "red") <=> tested[i]
           /\ Cardinality({i \in DOMAIN colours : colours[i] = "red"}) = crossed
           /\ sticks = returned

\* crosses has been called three times on a segment its first call swapped,
\* and the render cell has run twice on a stick that estimate() swapped and
\* counted as crossing.
C13_Witness ==
    /\ c_calls >= 3
    /\ c_s # c_s0
    /\ c_first
    /\ renders >= 2
    /\ crossed > 0
    /\ \E i \in DOMAIN returned : returned[i] # generated[i] /\ tested[i]

----------------------------------------------------------------------------
(* Properties of estimate *)

\* s and t are the same two points, in either order.
SameSegment(s, t) == s = t \/ s = <<t[2], t[1]>>

\* C3: estimate() never fails; its estimate is exactly 0 when nothing crossed
\* and otherwise the quotient (2*ratio*n)/crossed, rounded to the nearest
\* representable number.
C3_EstimateValue ==
    est_pc # "idle" =>
        /\ est_pc = "returned"
        /\ crossed = 0 => est = 0
        /\ crossed > 0 => 2 * Abs(est * crossed - 2 * ratio * n) <= crossed

\* Needles were dropped and none crossed.
C3_Witness == est_pc = "returned" /\ n > 0 /\ crossed = 0 /\ est = 0

\* C4: sticks holds the n segments generated by this call, and crossed is the
\* number of them with a grid line within their x-range.
C4_SticksAndCount ==
    est_pc = "returned" =>
        /\ Len(sticks) = n
        /\ Len(generated) = n
        /\ \A i \in 1..n : SameSegment(sticks[i], generated[i])
        /\ crossed = Cardinality({i \in 1..n : Touches(generated[i], lines)})
        /\ 0 <= crossed /\ crossed <= n

C4_Witness == est_pc = "returned" /\ n >= 2 /\ 0 < crossed /\ crossed < n

\* C5: the ratio in the estimate is L / D for the L and D in use, so that the
\* estimate is (2*L*n)/(D*crossed), both up to rounding (1e-7).
C5_RatioIsLOverD ==
    (est_pc = "returned" /\ crossed > 0) =>
        /\ Abs(ratio - MulDiv(L, Scale, D)) <= Scale \div 10^7
        /\ Abs(est - MulDiv(2 * L * n, Scale, D * crossed)) <= Scale \div 10^7

\* C14: every segment [[ox, oy], [x2, y2]] that randomRotatedLine(L) returns
\* has 0 <= ox < width and 0 <= oy < height; for an index i of the sample
\* table, 0 <= i <= samples-1, and a sign q, +1 or -1, x2 = ox + q*xs[i]*L
\* and y2 = oy + ys[i]*L; so y2 >= oy and |x2 - ox| <= L.
C14_NeedleGeometry ==
    est_pc # "idle" =>
        /\ DOMAIN generated = 1..n
        /\ \A j \in DOMAIN generated :
               LET ox == generated[j][1][1]
                   oy == generated[j][1][2]
                   x2 == generated[j][2][1]
                   y2 == generated[j][2][2]
               IN  /\ 0 <= ox /\ ox < width
                   /\ 0 <= oy /\ oy < height
                   /\ \E i \in {drawn[j].idx} \cap (0..(samples - 1)) :
                          \E q \in {drawn[j].quad} \cap {1, -1} :
                              /\ x2 = ox + q * MulDiv(xs[i], L, Scale)
                              /\ y2 = oy + MulDiv(ys[i], L, Scale)
                   /\ y2 >= oy
                   /\ Abs(x2 - ox) <= L

\* A needle dropped at the far edge, pointing left along the last entry of
\* the table, and one pointing straight up along the first.
C14_Witness ==
    /\ est_pc = "returned"
    /\ \E j \in DOMAIN generated :
           /\ drawn[j] = [u1 |-> Scale - 1, u2 |-> Scale - 1, quad |-> -1,
                          idx |-> samples - 1]
           /\ generated[j][2][1] = generated[j][1][1] - L
           /\ generated[j][2][2] = generated[j][1][2]
    /\ \E j \in DOMAIN generated :
           /\ drawn[j].idx = 0
           /\ generated[j][2][1] = generated[j][1][1]
           /\ generated[j][2][2] > generated[j][1][2]

\* The identities of a list of segments.
Ids(ids) == {ids[i] : i \in DOMAIN ids}

\* C15: after any sequence of calls of estimate(), lines and n are what the
\* configuration cell made them (the sample table and L, ratio, D, width and
\* height are never assigned after their cells); the segments a call returns
\* are new lists, none of them a list of the global sticks, which remain as
\* their own call returned them; and a call does nothing to its own segments
\* but exchange their endpoints.
C15_InvocationsIndependent ==
    /\ lines = grid
    /\ est_pc = "returned" =>
           /\ Len(returned) = n
           /\ Cardinality(Ids(stick_ids)) = n
           /\ \A i \in 1..n : heap[stick_ids[i]] = returned[i]
           /\ \A i \in 1..n : SameSegment(returned[i], generated[i])
           /\ sticks = returned
    /\ runs >= 1 =>
           /\ Len(temp_gen) = n
           /\ Cardinality(Ids(temp_ids)) = n
           /\ Ids(temp_ids) \cap Ids(stick_ids) = {}
           /\ DOMAIN heap = Ids(temp_ids) \cup Ids(stick_ids)
           /\ \A i \in 1..n : SameSegment(heap[temp_ids[i]], temp_gen[i])

\* The distribution cell has called estimate() twice; the first call of all
\* swapped a stick, and so did the latest.
C15_Witness ==
    /\ runs >= 2
    /\ n >= 1
    /\ \E i \in 1..n : returned[i] # generated[i]
    /\ \E i \in 1..n : heap[temp_ids[i]] # temp_gen[i]

----------------------------------------------------------------------------
(* Properties of reimann *)

\* reimann(lambda x: 4/(1 + x**2), 0, 1, 1, 'left')
LeftOneSlice == [f |-> "arctan4", a |-> 0, b |-> Scale, n |-> 1, method |-> "left"]

RulePoint(args, i) ==
    LET dx == Step(args.a, args.b, args.n)
    IN  CASE args.method = "left"  -> args.a + i * dx
          [] args.method = "right" -> args.a + (i + 1) * dx
          [] OTHER -> Half((args.a + i * dx) + (args.a + (i + 1) * dx))

\* f(s_0)*dx + ... + f(s_(m-1))*dx
RECURSIVE RuleSum(_, _)
RuleSum(args, m) ==
    IF m = 0 THEN 0
    ELSE RuleSum(args, m - 1)
         + FMul(Apply(args.f, RulePoint(args, m - 1)),
                Step(args.a, args.b, args.n))

\* The rounding allowed between the two sums: 1e-7.
SumTolerance == Scale \div 10^7

----------------------------------------------------------------------------
(* Properties of sqrtn *)

\* a*a <= x * Scale and a*a >= x * Scale, exactly (a >= 0).
SqLe(a, x) ==
    LET qr == MulDivMod(a, a, Scale)
    IN  qr[1] < x \/ (qr[1] = x /\ qr[2] = 0)

SqGe(a, x) == MulDivMod(a, a, Scale)[1] >= x

\* |x - kk*kk| <= tol, with the exact square.
SquareWithin(x, kk, tol) ==
    LET qr == MulDivMod(kk, kk, Scale)
    IN  /\ x - qr[1] <= tol
        /\ qr[1] - x < tol \/ (qr[1] - x = tol /\ qr[2] = 0)

\* |kk - sqrt(x)| <= tol, with the exact root.
RootWithin(x, kk, tol) ==
    /\ kk - tol <= 0 \/ SqLe(kk - tol, x)
    /\ SqGe(kk + tol, x)

\* C6: sqrtn(0) returns exactly 0 and sqrtn of a negative number raises, both
\* before the loop is entered: no pass of the loop runs and k is never bound.
C6_ZeroAndNegative ==
    /\ (sq_pc # "idle" /\ sq_n = 0) =>
           (sq_pc = "returned" /\ sq_ret = 0 /\ iters = 0 /\ k = None)
    /\ (sq_pc # "idle" /\ sq_n < 0) =>
           (sq_pc = "raised" /\ sq_ret = None /\ iters = 0 /\ k = None)

C6_Witness == sq_pc = "returned" /\ sq_n = 0 /\ sq_ret = 0

\* C7: whenever sqrtn returns k for an input n >= 0, the square of k is within
\* 1e-6 of n.
C7_SquareWithin1e6 ==
    (sq_pc = "returned" /\ sq_n >= 0) =>
        SquareWithin(sq_n, sq_ret, Scale \div 10^6)

C7_Witness == sq_pc = "returned" /\ sq_n > 0 /\ iters > 0 /\ sq_ret * 2 < Scale

\* C8, as claimed: the k returned is within 1e-7 of the true square root of n.
C8_RootWithin1e7 ==
    (sq_pc = "returned" /\ sq_n >= 0) =>
        RootWithin(sq_n, sq_ret, Scale \div 10^7)

\* C8, amended: the k returned has its square, as the loop computes it, within
\* 1e-7 of n; the tolerance is on the square and not on the root.
C8_ComputedSquareWithin1e7 ==
    (sq_pc = "returned" /\ sq_n >= 0) =>
        Abs(sq_n - FMul(sq_ret, sq_ret)) <= Scale \div 10^7

\* sqrtn(1e-8) has returned a k further than 1e-7 from the root 1e-4.
C8_Witness ==
    /\ sq_pc = "returned"
    /\ sq_n = 1
    /\ ~RootWithin(sq_n, sq_ret, Scale \div 10^7)

\* C9: a call with 0 <= n <= 1 that reaches the loop divides by a k > 0 in
\* every pass and returns after finitely many passes.
C9_TerminatesOnUnit ==
    /\ [](sq_pc # "ZeroDivisionError")
    /\ []((sq_pc = "loop" /\ sq_n <= Scale) => k > 0)
    /\ ((sq_pc = "loop" /\ sq_n <= Scale) ~> (sq_pc = "returned"))

C9_Witness == sq_pc = "returned" /\ sq_n > 0 /\ sq_n <= Scale /\ iters >= 3

====
